---- MODULE Spec2Model ----
(***************************************************************************)
(* Model of scripts/write-on-main-process.py: the controller creates an    *)
(* output file filled with NaN, splits the index range into batches,       *)
(* submits one task per batch to an MPIPoolExecutor, registers a done      *)
(* callback on each future, and checks the file after the pool has closed. *)
(*                                                                         *)
(* Threads of the controller process: "main" runs the script; "manager"    *)
(* is the pool's thread that sends tasks to the worker processes, receives *)
(* their results and resolves the futures.  A done callback runs in the    *)
(* thread that resolves the future, or in the thread calling               *)
(* add_done_callback when the future is already resolved.                  *)
(*                                                                         *)
(* float64 values are modelled as exact fractions num/den, or NaN.         *)
(***************************************************************************)
EXTENDS Integers, Sequences, FiniteSets, TLC

\* Bounds of the runs explored.
MaxData == 4
MaxTasks == 3
MaxWorkers == 2
MaxPlanData == 8
MaxOverlapData == 2
MaxOverlapTasks == 2
MaxOverlapWorkers == 1
MaxNegative == 1
MaxAnyData == 2

\* The values the script sets.
Program_N_data == 1024
Program_N_batches == 32

VARIABLES
    N_data,       \* number of rows
    N_batches,    \* second argument of itertools.batched
    NumWorkers,   \* worker processes of the MPI pool
    pc,           \* position of the main thread
    z,            \* dataset "z" of the output file
    data,         \* np.linspace(0, 1, N_data)
    batches,      \* list of index arrays
    next_batch,   \* position of the for loop in batches (1-based)
    futures,      \* list of futures appended so far (by submission number)
    fut,          \* futures created by pool.submit, by submission number
    task,         \* tasks inside the pool, by submission number
    cb,           \* per thread: the callback invocation it is executing
    handles,      \* threads that hold the output file open in mode r+
    writes,       \* history: per index, the submissions whose callback wrote it
    log,          \* history: submissions in the order their callbacks wrote
    outcome       \* how the run ended

vars == <<N_data, N_batches, NumWorkers, pc, z, data, batches, next_batch,
          futures, fut, task, cb, handles, writes, log, outcome>>

Threads == {"main", "manager"}

output_filename == "test-output.hdf5"

----------------------------------------------------------------------------
\* float64 arithmetic

NaN == [nan |-> TRUE, num |-> 0, den |-> 1]

Float(n, d) == [nan |-> FALSE, num |-> n, den |-> d]

isnan(v) == v.nan

isfinite(v) == ~v.nan

FloatAdd(a, n) ==
    IF a.nan THEN NaN ELSE Float(a.num + n * a.den, a.den)

FloatMul(a, b) ==
    IF a.nan \/ b.nan THEN NaN ELSE Float(a.num * b.num, a.den * b.den)

----------------------------------------------------------------------------
\* numpy and itertools helpers

\* np.arange(n) as a list
arange(n) == [j \in 1..n |-> j - 1]

\* np.linspace(0, 1, n), indexed from 0
linspace(n) == [i \in 0..(n - 1) |-> Float(i, IF n > 1 THEN n - 1 ELSE 1)]

\* an array of zeros in place of NaN
full_zero(n) == [i \in 0..(n - 1) |-> Float(0, 1)]

\* np.full(n, np.nan), indexed from 0
full_nan(n) == [i \in 0..(n - 1) |-> NaN]

\* a[idx] for an index array idx
Take(a, idx) == [j \in 1..Len(idx) |-> a[idx[j]]]

Range(s) == {s[j] : j \in 1..Len(s)}

\* itertools.batched that drops a final short batch
RECURSIVE batched_drop(_, _)
batched_drop(s, n) ==
    IF Len(s) < n
    THEN <<>>
    ELSE <<SubSeq(s, 1, n)>> \o batched_drop(SubSeq(s, n + 1, Len(s)), n)

\* itertools.batched(s, n): lists of n items, the last one possibly shorter
RECURSIVE batched(_, _)
batched(s, n) ==
    IF s = <<>>
    THEN <<>>
    ELSE LET m == IF Len(s) < n THEN Len(s) ELSE n
         IN  <<SubSeq(s, 1, m)>> \o batched(SubSeq(s, m + 1, Len(s)), n)

----------------------------------------------------------------------------
\* worker and the records passed around

NoResult == [idxs |-> <<>>, data |-> [z |-> <<>>], filename |-> ""]

IdleCallback == [pc |-> "idle", k |-> 0, result |-> NoResult]

\* worker that adds instead of multiplying
worker_add(idxs, d, filename) ==
    [idxs |-> idxs,
     data |-> [z |-> [j \in 1..Len(idxs) |->
                        IF d.x[j].nan \/ d.y[j].nan THEN NaN
                        ELSE Float(d.x[j].num * d.y[j].den + d.y[j].num * d.x[j].den,
                                   d.x[j].den * d.y[j].den)]],
     filename |-> filename]

worker(idxs, d, filename) ==
    [idxs |-> idxs,
     data |-> [z |-> [j \in 1..Len(idxs) |-> FloatMul(d.x[j], d.y[j])]],
     filename |-> filename]

Fulfilled(k) == fut[k].state = "FINISHED" /\ ~fut[k].exception

Failed(k) == fut[k].state = "FINISHED" /\ fut[k].exception

----------------------------------------------------------------------------
\* main thread

Configs ==
    {c \in (1..MaxData) \X (1..MaxData) :
        (c[1] + c[2] - 1) \div c[2] <= MaxTasks}

InitRest ==
    /\ pc = "create"
    /\ z = <<>>
    /\ data = <<>>
    /\ batches = <<>>
    /\ next_batch = 1
    /\ futures = <<>>
    /\ fut = <<>>
    /\ task = <<>>
    /\ cb = [t \in Threads |-> IdleCallback]
    /\ handles = {}
    /\ writes = <<>>
    /\ log = <<>>
    /\ outcome = [status |-> "running", failed |-> {}]

Init ==
    /\ \E c \in Configs : N_data = c[1] /\ N_batches = c[2]
    /\ NumWorkers \in 1..MaxWorkers
    /\ InitRest

\* with h5py.File(output_filename, "w"): create_dataset; assert isnan all
\* np.full raises ValueError for a negative length
CreateFile ==
    /\ pc = "create"
    /\ log' = <<>>
    /\ IF N_data < 0
       THEN /\ z' = z
            /\ writes' = writes
            /\ pc' = "done"
            /\ outcome' = [status |-> "ValueError", failed |-> {}]
       ELSE /\ z' = full_nan(N_data)
            /\ writes' = [i \in 0..(N_data - 1) |-> <<>>]
            /\ IF \A i \in 0..(N_data - 1) : isnan(z'[i])
               THEN pc' = "plan" /\ outcome' = outcome
               ELSE /\ pc' = "done"
                    /\ outcome' = [status |-> "AssertionError", failed |-> {}]
    /\ UNCHANGED <<N_data, N_batches, NumWorkers, data, batches, next_batch,
                   futures, fut, task, cb, handles>>

\* planning that takes a batch size below one as one
Plan_clamp ==
    /\ pc = "plan"
    /\ data' = linspace(N_data)
    /\ batches' = batched(arange(N_data),
                          IF N_batches < 1 THEN 1 ELSE N_batches)
    /\ pc' = "enter"
    /\ UNCHANGED <<N_data, N_batches, NumWorkers, z, next_batch, futures,
                   fut, task, cb, handles, writes, log, outcome>>

\* data = np.linspace(...); batches = [... itertools.batched(...)]
\* itertools.batched raises ValueError when its size is below one
Plan ==
    /\ pc = "plan"
    /\ data' = linspace(N_data)
    /\ IF N_batches < 1
       THEN /\ batches' = batches
            /\ pc' = "done"
            /\ outcome' = [status |-> "ValueError", failed |-> {}]
       ELSE /\ batches' = batched(arange(N_data), N_batches)
            /\ pc' = "enter"
            /\ outcome' = outcome
    /\ UNCHANGED <<N_data, N_batches, NumWorkers, z, next_batch, futures,
                   fut, task, cb, handles, writes, log>>

\* with MPIPoolExecutor() as pool: futures = []
EnterPool ==
    /\ pc = "enter"
    /\ futures' = <<>>
    /\ next_batch' = 1
    /\ pc' = "loop"
    /\ UNCHANGED <<N_data, N_batches, NumWorkers, z, data, batches, fut,
                   task, cb, handles, writes, log, outcome>>

NewTask(batch_idx) ==
    [state |-> "queued",
     idxs |-> batch_idx,
     data |-> [x |-> Take(data, batch_idx),
               y |-> [j \in 1..Len(batch_idx) |->
                        FloatAdd(Take(data, batch_idx)[j], 4)]],
     filename |-> output_filename,
     exception |-> FALSE,
     result |-> NoResult,
     late |-> FALSE]      \* history: the worker answered after the loop ended

NewFuture ==
    [state |-> "PENDING", callbacks |-> 0, exception |-> FALSE,
     result |-> NoResult,
     calls |-> 0]         \* history: invocations of callback on this future

\* submit that always sends the first batch
Submit_first ==
    /\ pc = "loop"
    /\ next_batch <= Len(batches)
    /\ task' = Append(task, NewTask(batches[1]))
    /\ fut' = Append(fut, NewFuture)
    /\ pc' = "register"
    /\ UNCHANGED <<N_data, N_batches, NumWorkers, z, data, batches,
                   next_batch, futures, cb, handles, writes, log, outcome>>

\* f = pool.submit(worker, batch_idx, data={...}, filename=output_filename)
Submit ==
    /\ pc = "loop"
    /\ next_batch <= Len(batches)
    /\ task' = Append(task, NewTask(batches[next_batch]))
    /\ fut' = Append(fut, NewFuture)
    /\ pc' = "register"
    /\ UNCHANGED <<N_data, N_batches, NumWorkers, z, data, batches,
                   next_batch, futures, cb, handles, writes, log, outcome>>

\* registration that forgets the callback of an already resolved future
AddDoneCallback_lost ==
    /\ pc = "register"
    /\ LET k == Len(fut) IN
         fut' = [fut EXCEPT ![k].callbacks =
                    IF fut[k].state = "PENDING" THEN @ + 1 ELSE @]
    /\ pc' = "append"
    /\ UNCHANGED <<N_data, N_batches, NumWorkers, z, data, batches,
                   next_batch, futures, task, cb, handles, writes, log,
                   outcome>>

\* f.add_done_callback(callback): a pending future stores the callback; a
\* resolved one has it called at once by the calling (main) thread
AddDoneCallback ==
    /\ pc = "register"
    /\ LET k == Len(fut) IN
         IF fut[k].state = "PENDING"
         THEN /\ fut' = [fut EXCEPT ![k].callbacks = @ + 1]
              /\ pc' = "append"
              /\ cb' = cb
         ELSE /\ cb' = [cb EXCEPT !["main"] =
                            [pc |-> "result", k |-> k, result |-> NoResult]]
              /\ pc' = "in_callback"
              /\ fut' = [fut EXCEPT ![k].calls = @ + 1]
    /\ UNCHANGED <<N_data, N_batches, NumWorkers, z, data, batches,
                   next_batch, futures, task, handles, writes, log, outcome>>

\* loop that steps over every other batch
AppendFuture_skip ==
    /\ pc = "append"
    /\ futures' = Append(futures, Len(fut))
    /\ next_batch' = next_batch + 2
    /\ pc' = "loop"
    /\ UNCHANGED <<N_data, N_batches, NumWorkers, z, data, batches, fut,
                   task, cb, handles, writes, log, outcome>>

\* futures.append(f), and on to the next batch
AppendFuture ==
    /\ pc = "append"
    /\ futures' = Append(futures, Len(fut))
    /\ next_batch' = next_batch + 1
    /\ pc' = "loop"
    /\ UNCHANGED <<N_data, N_batches, NumWorkers, z, data, batches, fut,
                   task, cb, handles, writes, log, outcome>>

\* the main thread is at the end of the with block: the pool is being closed
Closing == pc = "loop" /\ next_batch > Len(batches)

\* the pool has nothing left to do: every task resolved, manager at rest
PoolQuiet ==
    /\ \A k \in 1..Len(task) : task[k].state = "done"
    /\ cb["manager"].pc = "idle"

\* leaving the with block without waiting for the pool
ExitPool_nowait ==
    /\ pc = "loop"
    /\ next_batch > Len(batches)
    /\ pc' = "final"
    /\ UNCHANGED <<N_data, N_batches, NumWorkers, z, data, batches,
                   next_batch, futures, fut, task, cb, handles, writes, log,
                   outcome>>

\* end of the with block: shutdown(wait=True) joins the manager thread
ExitPool ==
    /\ pc = "loop"
    /\ next_batch > Len(batches)
    /\ PoolQuiet
    /\ pc' = "final"
    /\ UNCHANGED <<N_data, N_batches, NumWorkers, z, data, batches,
                   next_batch, futures, fut, task, cb, handles, writes, log,
                   outcome>>

\* final check that never fails
FinalCheck_nocheck ==
    /\ pc = "final"
    /\ outcome' = [status |-> "Completed", failed |-> {}]
    /\ pc' = "done"
    /\ UNCHANGED <<N_data, N_batches, NumWorkers, z, data, batches,
                   next_batch, futures, fut, task, cb, handles, writes, log>>

\* with h5py.File(output_filename, "r"): assert np.isfinite(f["z"]).all()
\* The script ends normally, or with an AssertionError that carries nothing.
FinalCheck ==
    /\ pc = "final"
    /\ outcome' = IF \A i \in DOMAIN z : isfinite(z[i])
                  THEN [status |-> "Completed", failed |-> {}]
                  ELSE [status |-> "AssertionError", failed |-> {}]
    /\ pc' = "done"
    /\ UNCHANGED <<N_data, N_batches, NumWorkers, z, data, batches,
                   next_batch, futures, fut, task, cb, handles, writes, log>>

----------------------------------------------------------------------------
\* the pool: manager thread and worker processes

Busy == {k \in 1..Len(task) : task[k].state \in {"running", "returned"}}

Queued == {k \in 1..Len(task) : task[k].state = "queued"}

\* dispatch that never gets a worker back once it has been used
Dispatch_leak(k) ==
    /\ cb["manager"].pc = "idle"
    /\ k \in Queued
    /\ \A j \in Queued : k <= j
    /\ Cardinality({j \in 1..Len(task) : task[j].state # "queued"})
          < NumWorkers
    /\ task' = [task EXCEPT ![k].state = "running"]
    /\ UNCHANGED <<N_data, N_batches, NumWorkers, pc, z, data, batches,
                   next_batch, futures, fut, cb, handles, writes, log, outcome>>

\* the manager sends the oldest queued task to a free worker
Dispatch(k) ==
    /\ cb["manager"].pc = "idle"
    /\ k \in Queued
    /\ \A j \in Queued : k <= j
    /\ Cardinality(Busy) < NumWorkers
    /\ task' = [task EXCEPT ![k].state = "running"]
    /\ UNCHANGED <<N_data, N_batches, NumWorkers, pc, z, data, batches,
                   next_batch, futures, fut, cb, handles, writes, log, outcome>>

\* a worker that writes its result into the file itself
WorkerRun_writes(k, raises) ==
    /\ k \in 1..Len(task)
    /\ task[k].state = "running"
    /\ task' = [task EXCEPT ![k].state = "returned",
                            ![k].exception = raises,
                            ![k].late = Closing,
                            ![k].result =
                                IF raises THEN NoResult
                                ELSE worker(task[k].idxs, task[k].data,
                                            task[k].filename)]
    /\ z' = IF raises THEN z
            ELSE [i \in DOMAIN z |->
                    IF \E j \in 1..Len(task[k].idxs) : task[k].idxs[j] = i
                    THEN task'[k].result.data.z[
                             CHOOSE j \in 1..Len(task[k].idxs) :
                                 task[k].idxs[j] = i]
                    ELSE z[i]]
    /\ UNCHANGED <<N_data, N_batches, NumWorkers, pc, data, batches,
                   next_batch, futures, fut, cb, handles, writes, log, outcome>>

\* a worker process runs worker(idxs, data, filename): it returns its
\* result, or raises (os.environ lookup) and the exception is sent back
WorkerRun(k, raises) ==
    /\ k \in 1..Len(task)
    /\ task[k].state = "running"
    /\ task' = [task EXCEPT ![k].state = "returned",
                            ![k].exception = raises,
                            ![k].late = Closing,
                            ![k].result =
                                IF raises THEN NoResult
                                ELSE worker(task[k].idxs, task[k].data,
                                            task[k].filename)]
    /\ UNCHANGED <<N_data, N_batches, NumWorkers, pc, z, data, batches,
                   next_batch, futures, fut, cb, handles, writes, log, outcome>>

\* resolution that drops the answers arriving while the pool is being closed
SetResult_discard(k) ==
    /\ cb["manager"].pc = "idle"
    /\ k \in 1..Len(task)
    /\ task[k].state = "returned"
    /\ task' = [task EXCEPT ![k].state = "done"]
    /\ fut' = [fut EXCEPT ![k].state = "FINISHED",
                          ![k].exception = task[k].exception,
                          ![k].result = task[k].result,
                          ![k].calls = @ + (IF Closing THEN 0
                                            ELSE fut[k].callbacks)]
    /\ cb' = IF fut[k].callbacks > 0 /\ ~Closing
             THEN [cb EXCEPT !["manager"] =
                      [pc |-> "result", k |-> k, result |-> NoResult]]
             ELSE cb
    /\ UNCHANGED <<N_data, N_batches, NumWorkers, pc, z, data, batches,
                   next_batch, futures, handles, writes, log, outcome>>

\* the manager receives the answer of task k and resolves its future
\* (set_result / set_exception); the callbacks stored in the future are then
\* called by the manager thread
SetResult(k) ==
    /\ cb["manager"].pc = "idle"
    /\ k \in 1..Len(task)
    /\ task[k].state = "returned"
    /\ task' = [task EXCEPT ![k].state = "done"]
    /\ fut' = [fut EXCEPT ![k].state = "FINISHED",
                          ![k].exception = task[k].exception,
                          ![k].result = task[k].result,
                          ![k].calls = @ + fut[k].callbacks]
    /\ cb' = IF fut[k].callbacks > 0
             THEN [cb EXCEPT !["manager"] =
                      [pc |-> "result", k |-> k, result |-> NoResult]]
             ELSE cb
    /\ UNCHANGED <<N_data, N_batches, NumWorkers, pc, z, data, batches,
                   next_batch, futures, handles, writes, log, outcome>>

----------------------------------------------------------------------------
\* callback(future), run by thread t

\* where the thread goes when its callback invocation ends
Return(t) == IF t = "main" THEN "append" ELSE pc

\* callback that writes zeros for a failed future
CallbackResult_default(t) ==
    /\ cb[t].pc = "result"
    /\ LET k == cb[t].k IN
         cb' = [cb EXCEPT ![t] =
                  [pc |-> "open", k |-> k,
                   result |-> IF fut[k].exception
                              THEN [idxs |-> task[k].idxs,
                                    data |-> [z |-> [j \in 1..Len(task[k].idxs)
                                                       |-> Float(0, 1)]],
                                    filename |-> task[k].filename]
                              ELSE fut[k].result]]
    /\ UNCHANGED <<N_data, N_batches, NumWorkers, pc, z, data, batches,
                   next_batch, futures, fut, task, handles, writes, log, outcome>>

\* callback that resets the file when the future failed
CallbackResult_rollback(t) ==
    /\ cb[t].pc = "result"
    /\ LET k == cb[t].k IN
         IF fut[k].exception
         THEN /\ cb' = [cb EXCEPT ![t] = IdleCallback]
              /\ pc' = Return(t)
              /\ z' = full_nan(N_data)
         ELSE /\ cb' = [cb EXCEPT ![t] =
                          [pc |-> "open", k |-> k, result |-> fut[k].result]]
              /\ pc' = pc
              /\ z' = z
    /\ UNCHANGED <<N_data, N_batches, NumWorkers, data, batches,
                   next_batch, futures, fut, task, handles, writes, log, outcome>>

\* result = future.result(): re-raises the worker's exception, which ends
\* the invocation (the futures machinery logs it and carries on)
CallbackResult(t) ==
    /\ cb[t].pc = "result"
    /\ LET k == cb[t].k IN
         IF fut[k].exception
         THEN /\ cb' = [cb EXCEPT ![t] = IdleCallback]
              /\ pc' = Return(t)
         ELSE /\ cb' = [cb EXCEPT ![t] =
                          [pc |-> "open", k |-> k, result |-> fut[k].result]]
              /\ pc' = pc
    /\ UNCHANGED <<N_data, N_batches, NumWorkers, z, data, batches,
                   next_batch, futures, fut, task, handles, writes, log, outcome>>

\* with h5py.File(result["filename"], "r+") as f:
CallbackOpen(t) ==
    /\ cb[t].pc = "open"
    /\ cb[t].result.filename = output_filename
    /\ handles' = handles \cup {t}
    /\ cb' = [cb EXCEPT ![t].pc = "assign"]
    /\ UNCHANGED <<N_data, N_batches, NumWorkers, pc, z, data, batches,
                   next_batch, futures, fut, task, writes, log, outcome>>

\* assignment that stores the first item only
SetItems_first(ds, idxs, vals) ==
    [i \in DOMAIN ds |-> IF idxs[1] = i THEN vals[1] ELSE ds[i]]

\* the dataset after f["z"][idxs] = vals
SetItems(ds, idxs, vals) ==
    [i \in DOMAIN ds |->
        IF \E j \in 1..Len(idxs) : idxs[j] = i
        THEN vals[CHOOSE j \in 1..Len(idxs) : idxs[j] = i]
        ELSE ds[i]]

Logged(idxs, k) ==
    [i \in DOMAIN writes |->
        IF i \in Range(idxs) THEN Append(writes[i], k) ELSE writes[i]]

\* assignment that rewrites the whole dataset from a fresh NaN array
CallbackAssign_whole(t) ==
    /\ cb[t].pc = "assign"
    /\ t \in handles
    /\ z' = SetItems(full_nan(N_data), cb[t].result.idxs, cb[t].result.data.z)
    /\ writes' = Logged(cb[t].result.idxs, cb[t].k)
    /\ log' = Append(log, cb[t].k)
    /\ cb' = [cb EXCEPT ![t].pc = "close"]
    /\ UNCHANGED <<N_data, N_batches, NumWorkers, pc, data, batches,
                   next_batch, futures, fut, task, handles, outcome>>

\* assignment that leaves an index alone once it holds a value
CallbackAssign_keep(t) ==
    /\ cb[t].pc = "assign"
    /\ t \in handles
    /\ LET fresh == {i \in Range(cb[t].result.idxs) : isnan(z[i])} IN
         /\ z' = [i \in DOMAIN z |->
                    IF i \in fresh
                    THEN SetItems(z, cb[t].result.idxs, cb[t].result.data.z)[i]
                    ELSE z[i]]
         /\ writes' = [i \in DOMAIN writes |->
                         IF i \in fresh THEN Append(writes[i], cb[t].k)
                         ELSE writes[i]]
    /\ log' = Append(log, cb[t].k)
    /\ cb' = [cb EXCEPT ![t].pc = "close"]
    /\ UNCHANGED <<N_data, N_batches, NumWorkers, pc, data, batches,
                   next_batch, futures, fut, task, handles, outcome>>

\* f["z"][result["idxs"]] = result["data"]["z"]
\* h5py runs each call under its process-wide lock and the handles of one
\* process share the file, so the assignment is one step on the one dataset.
CallbackAssign(t) ==
    /\ cb[t].pc = "assign"
    /\ t \in handles
    /\ z' = SetItems(z, cb[t].result.idxs, cb[t].result.data.z)
    /\ writes' = Logged(cb[t].result.idxs, cb[t].k)
    /\ log' = Append(log, cb[t].k)
    /\ cb' = [cb EXCEPT ![t].pc = "close"]
    /\ UNCHANGED <<N_data, N_batches, NumWorkers, pc, data, batches,
                   next_batch, futures, fut, task, handles, outcome>>

\* end of the with block: the file is closed and callback returns
CallbackClose(t) ==
    /\ cb[t].pc = "close"
    /\ handles' = handles \ {t}
    /\ cb' = [cb EXCEPT ![t] = IdleCallback]
    /\ pc' = Return(t)
    /\ UNCHANGED <<N_data, N_batches, NumWorkers, z, data, batches,
                   next_batch, futures, fut, task, writes, log, outcome>>

----------------------------------------------------------------------------
\* the run of the script

Pool ==
    \/ \E k \in 1..MaxTasks + 1 : Dispatch(k)
    \/ \E k \in 1..MaxTasks + 1 : WorkerRun(k, FALSE)
    \/ \E k \in 1..MaxTasks + 1 : WorkerRun(k, TRUE)
    \/ \E k \in 1..MaxTasks + 1 : SetResult(k)

Callback ==
    \/ \E t \in Threads : CallbackResult(t)
    \/ \E t \in Threads : CallbackOpen(t)
    \/ \E t \in Threads : CallbackAssign(t)
    \/ \E t \in Threads : CallbackClose(t)

Next ==
    \/ CreateFile
    \/ Plan
    \/ EnterPool
    \/ Submit
    \/ AddDoneCallback
    \/ AppendFuture
    \/ ExitPool
    \/ FinalCheck
    \/ Pool
    \/ Callback

Spec == Init /\ [][Next]_vars

\* the steps of the main thread
Main ==
    \/ CreateFile
    \/ Plan
    \/ EnterPool
    \/ Submit
    \/ AddDoneCallback
    \/ AppendFuture
    \/ ExitPool
    \/ FinalCheck

\* every thread and every worker process keeps running: the main thread, the
\* pool (manager and workers, each worker call returning or raising) and
\* the callbacks take their steps when they can
FairSpec ==
    /\ Spec
    /\ WF_vars(Main)
    /\ WF_vars(Pool)
    /\ WF_vars(Callback)

----------------------------------------------------------------------------
\* the planning steps alone, over a wider range of N_data and N_batches and
\* with the values of the script

PlanConfigs ==
    ((1..MaxPlanData) \X (1..MaxPlanData))
        \cup {<<Program_N_data, Program_N_batches>>}

InitPlan ==
    /\ \E c \in PlanConfigs : N_data = c[1] /\ N_batches = c[2]
    /\ NumWorkers = 1
    /\ InitRest

NextPlan ==
    \/ CreateFile
    \/ Plan

SpecPlan == InitPlan /\ [][NextPlan]_vars

----------------------------------------------------------------------------
\* the run on index arrays that need not be disjoint: callback applied to
\* results that share indices

\* the elements of a set of indices in increasing order
Sorted(S) ==
    CHOOSE s \in [1..Cardinality(S) -> S] :
        \A a, b \in 1..Cardinality(S) : a < b => s[a] < s[b]

IndexArrays(n) == {Sorted(S) : S \in (SUBSET (0..(n - 1))) \ {{}}}

BatchLists(n) ==
    UNION {[1..m -> IndexArrays(n)] : m \in 1..MaxOverlapTasks}

InitOverlap ==
    /\ N_data \in 1..MaxOverlapData
    /\ N_batches = 1
    /\ NumWorkers \in 1..MaxOverlapWorkers
    /\ InitRest

PlanOverlap ==
    /\ pc = "plan"
    /\ data' = linspace(N_data)
    /\ batches' \in BatchLists(N_data)
    /\ pc' = "enter"
    /\ UNCHANGED <<N_data, N_batches, NumWorkers, z, next_batch, futures,
                   fut, task, cb, handles, writes, log, outcome>>

NextOverlap ==
    \/ CreateFile
    \/ PlanOverlap
    \/ EnterPool
    \/ Submit
    \/ AddDoneCallback
    \/ AppendFuture
    \/ ExitPool
    \/ FinalCheck
    \/ Pool
    \/ Callback

SpecOverlap == InitOverlap /\ [][NextOverlap]_vars

----------------------------------------------------------------------------
\* the run for any N_data and N_batches, zero and negative ones included

InitAny ==
    /\ N_data \in (-MaxNegative)..MaxAnyData
    /\ N_batches \in (-MaxNegative)..MaxAnyData
    /\ NumWorkers \in 1..MaxWorkers
    /\ InitRest

SpecAny == InitAny /\ [][Next]_vars

----------------------------------------------------------------------------
\* Properties of the run

Denominator == IF N_data > 1 THEN N_data - 1 ELSE 1

\* z[i] = x[i] * (x[i] + 4) with x[i] = i / (N_data - 1)
HoldsProduct(i) ==
    /\ isfinite(z[i])
    /\ z[i].num * Denominator * Denominator
         = i * (i + 4 * Denominator) * z[i].den

AllSubmitted == Len(fut) = Len(batches) /\ Len(batches) > 0

AllFulfilled == AllSubmitted /\ \A k \in 1..Len(fut) : Fulfilled(k)

\* C1: no two invocations of callback are in progress at the same time, and
\* so the output file is never held open for writing by two of them at once.
C1_NoOverlap ==
    /\ ~(cb["main"].pc # "idle" /\ cb["manager"].pc # "idle")
    /\ Cardinality(handles) <= 1

\* C2: no index is written more than once by the callbacks, and at the end
\* of a run whose futures are all fulfilled every index of [0, N_data) has
\* been written exactly once.
C2_WrittenOnce ==
    /\ \A i \in DOMAIN writes : Len(writes[i]) <= 1
    /\ (pc = "done" /\ AllFulfilled) =>
          /\ DOMAIN writes = 0..(N_data - 1)
          /\ \A i \in 0..(N_data - 1) : Len(writes[i]) = 1

C2_Witness ==
    /\ pc = "done"
    /\ AllFulfilled
    /\ Len(batches) >= 2
    /\ \A i \in 0..(N_data - 1) : Len(writes[i]) = 1

\* C3: after a run in which every worker succeeded the final check passes:
\* no index holds NaN and z[i] = x[i] * y[i] with y[i] = x[i] + 4.
C3_FinalValues ==
    (pc = "done" /\ AllFulfilled) =>
        /\ outcome.status = "Completed"
        /\ \A i \in 0..(N_data - 1) : HoldsProduct(i)

C3_Witness ==
    /\ pc = "done"
    /\ AllFulfilled
    /\ N_data >= 3
    /\ outcome.status = "Completed"
    /\ HoldsProduct(N_data - 1)

\* C4: the final contents of the file are determined by the plan and by
\* which futures were fulfilled, whatever the order in which the futures
\* resolved and the callbacks ran.
C4_OrderIndependent ==
    pc = "done" =>
        \A i \in 0..(N_data - 1) :
            IF \E k \in 1..Len(fut) : Fulfilled(k) /\ i \in Range(batches[k])
            THEN HoldsProduct(i)
            ELSE isnan(z[i])

\* a run whose callbacks ran in the opposite order of the submissions
C4_Witness ==
    /\ pc = "done"
    /\ Len(fut) >= 2
    /\ Fulfilled(1)
    /\ Fulfilled(2)
    /\ log = <<2, 1>>
    /\ \A i \in 0..(N_data - 1) : isfinite(z[i])

\* C5: the main thread is past the with block (at or after the final read)
\* only when every submitted future is resolved and every callback has
\* finished; no callback holds the file open during the final read.
C5_ExitAfterAll ==
    pc \in {"final", "done"} =>
        /\ AllSubmitted
        /\ \A k \in 1..Len(fut) : fut[k].state = "FINISHED"
        /\ \A t \in Threads : cb[t].pc = "idle"
        /\ handles = {}
        /\ \A k \in 1..Len(fut) :
              Fulfilled(k) => \A i \in Range(batches[k]) : k \in Range(writes[i])

C5_Witness ==
    /\ pc = "final"
    /\ Len(fut) >= 2
    /\ \E k \in 1..Len(fut) : Fulfilled(k)

\* C6: the callback of a batch whose worker raised writes nothing, so the
\* indices of that batch hold NaN at the end, while the other batches are
\* fulfilled and written.
C6_FailedBatchUnwritten ==
    pc = "done" =>
        \A k \in 1..Len(fut) :
            IF task[k].exception
            THEN /\ Failed(k)
                 /\ \A i \in Range(batches[k]) :
                       isnan(z[i]) /\ writes[i] = <<>>
            ELSE /\ Fulfilled(k)
                 /\ \A i \in Range(batches[k]) :
                       isfinite(z[i]) /\ writes[i] = <<k>>

C6_Witness ==
    /\ pc = "done"
    /\ Cardinality({k \in 1..Len(fut) : Failed(k)}) = 1
    /\ \E k \in 1..Len(fut) : Fulfilled(k) /\ isfinite(z[batches[k][1]])
    /\ \E k \in 1..Len(fut) : Failed(k) /\ isnan(z[batches[k][1]])

FailedRanges == {Range(batches[k]) : k \in {j \in 1..Len(fut) : Failed(j)}}

\* C7 as stated: the run ends as Completed when all indices were written,
\* otherwise as CompletedWithFailures naming exactly the ranges of the
\* failed batches.
C7_StructuredStatus ==
    pc = "done" =>
        outcome = IF \A i \in 0..(N_data - 1) : writes[i] # <<>>
                  THEN [status |-> "Completed", failed |-> {}]
                  ELSE [status |-> "CompletedWithFailures",
                        failed |-> FailedRanges]

\* C7 as amended: the run ends on its final assertion, which passes exactly
\* when no batch failed (all indices written); a run with a failed batch
\* ends with an AssertionError that names no index range.
C7_AssertionOutcome ==
    pc = "done" =>
        /\ outcome.status \in {"Completed", "AssertionError"}
        /\ outcome.failed = {}
        /\ outcome.status = "Completed" <=>
              \A i \in 0..(N_data - 1) : writes[i] # <<>>
        /\ outcome.status = "AssertionError" <=> FailedRanges # {}

C7_Witness ==
    /\ pc = "done"
    /\ outcome = [status |-> "AssertionError", failed |-> {}]
    /\ FailedRanges # {}
    /\ \E k \in 1..Len(fut) : Fulfilled(k)

\* C8: the batches are non-empty, pairwise disjoint and cover [0, N_data);
\* every batch but the last holds N_batches indices and the last holds the
\* remainder; N_data = 5 with batches of 2 gives {0,1}, {2,3}, {4}.
C8_Partition ==
    pc = "enter" =>
        /\ \A k \in 1..Len(batches) :
              /\ Len(batches[k]) >= 1
              /\ Cardinality(Range(batches[k])) = Len(batches[k])
        /\ \A j, k \in 1..Len(batches) :
              j # k => Range(batches[j]) \cap Range(batches[k]) = {}
        /\ UNION {Range(batches[k]) : k \in 1..Len(batches)} = 0..(N_data - 1)
        /\ \A k \in 1..(Len(batches) - 1) : Len(batches[k]) = N_batches
        /\ Len(batches[Len(batches)]) =
              IF N_data % N_batches = 0 THEN N_batches
              ELSE N_data % N_batches
        /\ (N_data = 5 /\ N_batches = 2) =>
              batches = <<(<<0, 1>>), (<<2, 3>>), (<<4>>)>>

C8_Witness ==
    /\ pc = "enter"
    /\ N_data = 5
    /\ N_batches = 2
    /\ batches = <<(<<0, 1>>), (<<2, 3>>), (<<4>>)>>

\* C9 as stated: when 0 < N_batches <= N_data the plan holds exactly
\* N_batches batches.
C9_BatchCount ==
    (pc = "enter" /\ N_batches <= N_data) => Len(batches) = N_batches

OverlappingFulfilled ==
    \E j, k \in 1..Len(fut) :
        /\ j # k
        /\ Fulfilled(j)
        /\ Fulfilled(k)
        /\ Range(batches[j]) \cap Range(batches[k]) # {}

\* C10 as stated: an index already written is never written again, and a
\* run in which a callback was given such an index ends with a
\* duplicate-write error.
C10_DuplicateWriteRejected ==
    /\ \A i \in DOMAIN writes : Len(writes[i]) <= 1
    /\ (pc = "done" /\ OverlappingFulfilled) =>
          outcome.status = "DuplicateWriteError"

\* C10 as amended: a callback given an index that was already written
\* writes it again; every fulfilled result is written in full, no error is
\* raised and the run goes on to its final check.
C10_SilentOverwrite ==
    /\ outcome.status \in {"running", "Completed", "AssertionError"}
    /\ pc = "done" =>
          \A i \in 0..(N_data - 1) :
              /\ Len(writes[i]) =
                    Cardinality({k \in 1..Len(fut) :
                                    Fulfilled(k) /\ i \in Range(batches[k])})
              /\ writes[i] # <<>> => HoldsProduct(i)

C10_Witness ==
    /\ pc = "done"
    /\ OverlappingFulfilled
    /\ \E i \in 0..(N_data - 1) : Len(writes[i]) = 2
    /\ outcome.status = "Completed"

LateFulfilled == {k \in 1..Len(fut) : task[k].late /\ Fulfilled(k)}

\* C11 as stated: a result produced after the main thread began to close
\* the pool is never written (its indices keep NaN), and a run with such a
\* result does not end as successful.
C11_LateResultsDiscarded ==
    /\ \A k \in 1..Len(task) :
          task[k].late => \A i \in Range(batches[k]) : isnan(z[i])
    /\ (pc = "done" /\ \E k \in 1..Len(task) : task[k].late) =>
          outcome.status # "Completed"

\* C11 as amended: closing the pool waits; the tasks outstanding when the
\* main thread reaches the end of the with block are neither cancelled nor
\* detached, every one of them is run and resolved before the block is left,
\* the fulfilled results produced during the close are written, and the run
\* ends as successful when every future was fulfilled.
C11_CloseWaits ==
    /\ pc \in {"final", "done"} =>
          /\ \A k \in 1..Len(task) : task[k].state = "done"
          /\ \A k \in LateFulfilled :
                \A i \in Range(batches[k]) :
                    isfinite(z[i]) /\ k \in Range(writes[i])
    /\ (pc = "done" /\ AllFulfilled) => outcome.status = "Completed"

C11_Witness ==
    /\ pc = "done"
    /\ AllFulfilled
    /\ LateFulfilled # {}
    /\ \E k \in LateFulfilled : isfinite(z[batches[k][1]])
    /\ outcome.status = "Completed"

InvalidConfig == N_data <= 0 \/ N_batches <= 0

\* C12 as stated: with N_data <= 0 or N_batches <= 0 the run fails with an
\* error before the pool is opened; no task is submitted, no callback runs.
C12_InvalidConfigFails ==
    InvalidConfig =>
        /\ task = <<>>
        /\ fut = <<>>
        /\ \A t \in Threads : cb[t].pc = "idle"
        /\ pc \in {"create", "plan", "done"}
        /\ pc = "done" => outcome.status = "ValueError"

\* C12 as amended: with N_data < 0 or N_batches <= 0 the run fails with a
\* ValueError before the pool is opened; with N_data = 0 and N_batches > 0
\* the plan is empty and the run ends as successful; in every such case no
\* task is submitted and no callback runs.
C12_InvalidConfigNoTask ==
    InvalidConfig =>
        /\ task = <<>>
        /\ fut = <<>>
        /\ log = <<>>
        /\ \A t \in Threads : cb[t].pc = "idle"
        /\ (N_data < 0 \/ N_batches <= 0) => pc \in {"create", "plan", "done"}
        /\ pc = "done" =>
              outcome.status = IF N_data < 0 \/ N_batches <= 0
                               THEN "ValueError" ELSE "Completed"

C12_Witness ==
    /\ N_data > 0
    /\ N_batches <= 0
    /\ pc = "done"
    /\ outcome.status = "ValueError"
    /\ task = <<>>

AllSentinel ==
    /\ DOMAIN z = 0..(N_data - 1)
    /\ \A i \in 0..(N_data - 1) : isnan(z[i])

\* C13: the output file is created and filled with NaN at every index of
\* [0, N_data) before the pool is opened; as long as no task has been
\* submitted every index holds NaN.
C13_SentinelBeforeSubmit ==
    /\ pc = "create" => (z = <<>> /\ task = <<>>)
    /\ (pc # "create" /\ task = <<>>) => AllSentinel

C13_Witness ==
    /\ pc = "loop"
    /\ next_batch = 1
    /\ task = <<>>
    /\ N_data >= 2
    /\ AllSentinel

Registered(k) == fut[k].callbacks = 1 \/ fut[k].calls >= 1

\* C14: every batch is submitted exactly once, in the order of the plan,
\* each submission has its own future, and callback is registered on a
\* future before the next batch is submitted and before the pool is closed.
C14_SubmitOnceAndRegister ==
    /\ Len(task) = Len(fut)
    /\ Len(task) <= Len(batches)
    /\ \A k \in 1..Len(task) : task[k].idxs = batches[k]
    /\ pc \in {"loop", "register"} =>
          Len(task) = (IF pc = "loop" THEN next_batch - 1 ELSE next_batch)
    /\ \A k \in 1..Len(fut) :
          (k < Len(fut) \/ pc \notin {"register"}) => Registered(k)
    /\ (Closing \/ pc \in {"final", "done"}) =>
          /\ Len(task) = Len(batches)
          /\ \A k \in 1..Len(fut) : Registered(k)

C14_Witness ==
    /\ pc = "final"
    /\ Len(batches) >= 3
    /\ Len(task) = Len(batches)
    /\ \A k \in 1..Len(fut) : Registered(k) /\ task[k].idxs = batches[k]

WorkerStep ==
    \E k \in 1..Len(task) :
        task[k].state = "running" /\ task'[k].state = "returned"

AssignStep ==
    \E t \in Threads : cb[t].pc = "assign" /\ cb'[t].pc = "close"

\* C15: a step of a worker leaves the file as it is (contents and open
\* handles), and once created the file's contents change only in the
\* assignment of a callback run by a thread of the controller.
C15_OnlyCallbackWrites ==
    [][/\ WorkerStep => (z' = z /\ handles' = handles)
       /\ (pc # "create" /\ z' # z) => AssignStep]_vars

C15_Witness ==
    /\ \E k \in 1..Len(task) : task[k].state = "returned" /\ ~task[k].exception
    /\ log = <<>>
    /\ N_data >= 2
    /\ AllSentinel

\* C16: once a callback has written an index, the value at that index does
\* not change any more, whatever happens to later futures.
C16_WrittenStays ==
    [][\A i \in DOMAIN writes : writes[i] # <<>> => z'[i] = z[i]]_vars

C16_Witness ==
    /\ pc = "done"
    /\ \E k \in 1..Len(fut) :
          /\ Failed(k)
          /\ \E j \in 1..(k - 1) :
                /\ j \in Range(log)
                /\ \A i \in Range(batches[j]) : HoldsProduct(i)

Written == UNION {Range(batches[k]) : k \in Range(log)}

\* C17: the indices that do not hold NaN are exactly the indices of the
\* batches whose callback has done its write; the indices of a batch whose
\* future is pending or failed, or whose callback has not written yet, all
\* hold NaN.
C17_WrittenSetExact ==
    /\ {i \in DOMAIN z : isfinite(z[i])} = Written
    /\ \A k \in 1..Len(batches) :
          (k > Len(fut) \/ k \notin Range(log)) =>
              \A i \in Range(batches[k]) : i \in DOMAIN z /\ isnan(z[i])
    /\ \A k \in Range(log) : Fulfilled(k)

C17_Witness ==
    /\ \A t \in Threads : cb[t].pc = "idle"
    /\ Len(log) = 1
    /\ Len(fut) >= 3
    /\ \E k \in 1..Len(fut) : Failed(k)
    /\ \E k \in 1..Len(fut) : fut[k].state = "PENDING"
    /\ Cardinality(Written) >= 1
    /\ {i \in DOMAIN z : isfinite(z[i])} = Written

\* C18: callback is invoked at most once on a future and never on a future
\* that is not resolved; when the pool has been closed it has been invoked
\* exactly once on every submitted future, whether it was registered before
\* or after the future resolved.
C18_CalledOnceAfterResolve ==
    /\ \A k \in 1..Len(fut) :
          /\ fut[k].calls <= 1
          /\ fut[k].calls = 1 => fut[k].state = "FINISHED"
    /\ \A t \in Threads :
          cb[t].pc # "idle" =>
              fut[cb[t].k].state = "FINISHED" /\ fut[cb[t].k].calls = 1
    /\ pc \in {"final", "done"} => \A k \in 1..Len(fut) : fut[k].calls = 1

C18_Witness ==
    /\ pc = "done"
    /\ \E j, k \in 1..Len(fut) :
          /\ fut[j].callbacks = 1
          /\ fut[j].calls = 1
          /\ fut[k].callbacks = 0
          /\ fut[k].calls = 1

\* C19: under fair scheduling every future is eventually resolved, the pool
\* is eventually left and the run reaches the end of its final check.
C19_Terminates ==
    <>(/\ pc = "done"
       /\ Len(fut) = Len(batches)
       /\ \A k \in 1..Len(fut) : fut[k].state = "FINISHED"
       /\ outcome.status # "running")

C19_Witness ==
    /\ pc = "done"
    /\ Len(fut) = Len(batches)
    /\ Len(fut) > NumWorkers
    /\ \A k \in 1..Len(fut) : fut[k].state = "FINISHED"
    /\ outcome.status # "running"

====
